---- MODULE Spec2Model ----
(***************************************************************************)
(* Invoice Genie (src/app.py): the invoice text extraction functions and   *)
(* the Flask route that runs them on an uploaded PDF.                      *)
(*                                                                         *)
(* A text is a sequence of one-character strings.  Amounts and quantities  *)
(* (Python floats with two decimals in the source) are integers counted in *)
(* hundredths: 58.00 is 5800, the quantity 1.00 is 100.                    *)
(***************************************************************************)
EXTENDS Integers, Sequences, FiniteSets, TLC

\* Python's None, and a value that is not None.
None == [some |-> FALSE]
Some(v) == [some |-> TRUE, v |-> v]

\* F(x) with x the value of v, computed once: a local variable assignment.
Let(v, F(_)) == CHOOSE y \in {F(x) : x \in {v}} : TRUE

Min(S) == CHOOSE x \in S : \A y \in S : x <= y
Max(S) == CHOOSE x \in S : \A y \in S : x >= y

(***************************************************************************)
(* Characters and the str methods the source uses.                         *)
(***************************************************************************)

\* The characters of the modelled texts in ascending code point order.
Ascii == <<"\n", " ", ",", "-", ".", "/", "0", "1", "2", "3", "4", "5", "6", "7", "8", "9", ":", "A", "B", "C", "D", "E", "F", "G", "H", "I", "J", "K", "L", "M", "N", "O", "P", "Q", "R", "S", "T", "U", "V", "W", "X", "Y", "Z", "a", "b", "c", "d", "e", "f", "g", "h", "i", "j", "k", "l", "m", "n", "o", "p", "q", "r", "s", "t", "u", "v", "w", "x", "y", "z">>
LowerCase == <<"a", "b", "c", "d", "e", "f", "g", "h", "i", "j", "k", "l", "m", "n", "o", "p", "q", "r", "s", "t", "u", "v", "w", "x", "y", "z">>
UpperCase == <<"A", "B", "C", "D", "E", "F", "G", "H", "I", "J", "K", "L", "M", "N", "O", "P", "Q", "R", "S", "T", "U", "V", "W", "X", "Y", "Z">>
DigitChars == <<"0", "1", "2", "3", "4", "5", "6", "7", "8", "9">>

\* ord(c), up to an order-preserving renumbering.
Ord(c) == CHOOSE i \in DOMAIN Ascii : Ascii[i] = c

\* The regex classes \d, \s, [:\s], [/-] and [\d,] on these characters.
DigitSet == {"0", "1", "2", "3", "4", "5", "6", "7", "8", "9"}
SpaceSet == {" ", "\n"}
LabelSepSet == {" ", "\n", ":"}
DateSepSet == {"/", "-"}
MoneyBodySet == DigitSet \cup {","}

DigitVal(c) == (CHOOSE i \in DOMAIN DigitChars : DigitChars[i] = c) - 1

\* int(s[:k]) of a string of digits.
RECURSIVE ToIntUpTo(_, _)
ToIntUpTo(s, k) ==
  IF k = 0 THEN 0 ELSE 10 * ToIntUpTo(s, k - 1) + DigitVal(s[k])

\* int(s) of a string of digits.
ToInt(s) == ToIntUpTo(s, Len(s))

\* str(n) of a natural number.
RECURSIVE IntToStr(_)
IntToStr(n) ==
  IF n < 10 THEN <<DigitChars[n + 1]>>
  ELSE IntToStr(n \div 10) \o <<DigitChars[(n % 10) + 1]>>

UpperChar(c) ==
  IF \E i \in DOMAIN LowerCase : LowerCase[i] = c
  THEN UpperCase[CHOOSE i \in DOMAIN LowerCase : LowerCase[i] = c]
  ELSE c

\* str.upper
Upper(s) == [i \in DOMAIN s |-> UpperChar(s[i])]

\* The literal p occurs in s at position i.
MatchAt(s, i, p) ==
  /\ i >= 1
  /\ i + Len(p) - 1 <= Len(s)
  /\ \A k \in 1..Len(p) : s[i + k - 1] = p[k]

\* p in s
Contains(s, p) == \E i \in 1..Len(s) : MatchAt(s, i, p)

\* The length of the longest run of characters of cls that starts at i: what
\* a greedy cls* consumes there.
RunLen(s, i, cls) ==
  IF \A j \in i..Len(s) : s[j] \in cls
  THEN (IF i > Len(s) THEN 0 ELSE Len(s) - i + 1)
  ELSE Min({j \in i..Len(s) : s[j] \notin cls}) - i

\* str.strip
Strip(s) ==
  IF \A i \in DOMAIN s : s[i] \in SpaceSet THEN <<>>
  ELSE SubSeq(s, Min({i \in DOMAIN s : s[i] \notin SpaceSet}),
                 Max({i \in DOMAIN s : s[i] \notin SpaceSet}))

\* The length of the line that starts at position i.
LineLen(s, i) ==
  IF \A j \in i..Len(s) : s[j] # "\n" THEN Len(s) - i + 1
  ELSE Min({j \in i..Len(s) : s[j] = "\n"}) - i

\* str.splitlines from position i on: no final empty line after a trailing
\* line break.
RECURSIVE SplitLinesFrom(_, _)
SplitLinesFrom(s, i) ==
  IF i > Len(s) THEN <<>>
  ELSE Let(LineLen(s, i),
           LAMBDA n : <<SubSeq(s, i, i + n - 1)>> \o SplitLinesFrom(s, i + n + 1))

SplitLines(s) == SplitLinesFrom(s, 1)

\* "\n".join(parts[k:])
RECURSIVE JoinLinesFrom(_, _)
JoinLinesFrom(parts, k) ==
  IF k > Len(parts) THEN <<>>
  ELSE IF k = Len(parts) THEN parts[k]
  ELSE parts[k] \o <<"\n">> \o JoinLinesFrom(parts, k + 1)

\* "\n".join(parts)
JoinLines(parts) == JoinLinesFrom(parts, 1)

\* a <= b for str: lexicographic by code point.
StrLe(a, b) ==
  IF \A i \in 1..Len(a) : i <= Len(b) /\ a[i] = b[i] THEN TRUE
  ELSE IF \A i \in 1..Len(b) : i <= Len(a) /\ a[i] = b[i] THEN FALSE
  ELSE Let(Min({i \in 1..Len(a) : i <= Len(b) /\ a[i] # b[i]}),
           LAMBDA k : Ord(a[k]) < Ord(b[k]))

\* sorted(S) of a set of str.
RECURSIVE sorted(_)
sorted(S) ==
  IF S = {} THEN <<>>
  ELSE Let(CHOOSE x \in S : \A y \in S : StrLe(x, y),
           LAMBDA m : <<m>> \o sorted(S \ {m}))

(***************************************************************************)
(* extract_text                                                            *)
(***************************************************************************)

\* An uploaded file is [kind |-> "pdf", pages |-> ...] with one entry per
\* page, the value page.extract_text() returns (None or a text), or
\* [kind |-> "corrupt"], which PdfReader cannot open.
PageText(p) == IF p.some THEN p.v ELSE <<>>

extract_text(pdf) ==
  Let([i \in DOMAIN pdf.pages |-> PageText(pdf.pages[i])], LAMBDA texts : JoinLines(texts))

(***************************************************************************)
(* extract_invoice_date                                                    *)
(***************************************************************************)

sINVOICE == <<"I", "N", "V", "O", "I", "C", "E">>
sDATE == <<"D", "A", "T", "E">>

\* \d{1,2}[/-]\d{1,2}[/-]\d{4} at position p: the token, <<>> when it does
\* not match.  A number followed by a separator is a whole run of digits.
DateTokenAt(text, p) ==
  Let(RunLen(text, p, DigitSet), LAMBDA la :
    Let(RunLen(text, p + la + 1, DigitSet), LAMBDA lb :
      IF /\ la \in {1, 2}
         /\ p + la <= Len(text)
         /\ text[p + la] \in DateSepSet
         /\ lb \in {1, 2}
         /\ p + la + 1 + lb <= Len(text)
         /\ text[p + la + 1 + lb] \in DateSepSet
         /\ RunLen(text, p + la + lb + 2, DigitSet) >= 4
      THEN SubSeq(text, p, p + la + lb + 5)
      ELSE <<>>))

\* The date token captured when the pattern
\*   Invoice\s+Date[:\s]+(\d{1,2}[/-]\d{1,2}[/-]\d{4})   (IGNORECASE)
\* matches at position i, <<>> when it does not; up is the text in upper
\* case.  Every greedy run is followed by a character outside its class,
\* so backtracking finds no other match.
DateMatchAt(text, up, i) ==
  IF ~MatchAt(up, i, sINVOICE) THEN <<>>
  ELSE Let(RunLen(text, i + Len(sINVOICE), SpaceSet), LAMBDA w :
    IF w = 0 \/ ~MatchAt(up, i + Len(sINVOICE) + w, sDATE) THEN <<>>
    ELSE Let(RunLen(text, i + Len(sINVOICE) + w + Len(sDATE), LabelSepSet), LAMBDA c :
      IF c = 0 THEN <<>>
      ELSE DateTokenAt(text, i + Len(sINVOICE) + w + Len(sDATE) + c)))

\* re.search: the leftmost match, None when there is none.
DateSearch(text) ==
  Let(Upper(text), LAMBDA up :
    Let({i \in 1..Len(text) : DateMatchAt(text, up, i) # <<>>}, LAMBDA at :
      IF at = {} THEN None ELSE Some(DateMatchAt(text, up, Min(at)))))

\* The fields of a matched token: a, first separator, b, second separator, yyyy.
DateFields(raw) ==
  Let(RunLen(raw, 1, DigitSet), LAMBDA la :
    Let(RunLen(raw, la + 2, DigitSet), LAMBDA lb :
      [a |-> ToInt(SubSeq(raw, 1, la)),
       s1 |-> raw[la + 1],
       b |-> ToInt(SubSeq(raw, la + 2, la + lb + 1)),
       s2 |-> raw[la + lb + 2],
       y |-> ToInt(SubSeq(raw, la + lb + 3, Len(raw)))]))

IsLeap(y) == (y % 4 = 0 /\ y % 100 # 0) \/ y % 400 = 0

DaysInMonth(y, m) ==
  IF m = 2 THEN (IF IsLeap(y) THEN 29 ELSE 28)
  ELSE IF m \in {4, 6, 9, 11} THEN 30
  ELSE 31

\* datetime(y, m, d) is constructible.
ValidDate(y, m, d) ==
  /\ y >= 1
  /\ m \in 1..12
  /\ d >= 1
  /\ d <= DaysInMonth(y, m)

\* A variant that tries the day-first formats before the month-first ones.
FormatsDayFirst ==
  <<[first |-> "d", sep |-> "/"], [first |-> "d", sep |-> "-"],
    [first |-> "m", sep |-> "/"], [first |-> "m", sep |-> "-"]>>

\* The formats in the order the source tries them; first is the field the
\* token's first number is read as.
Formats ==
  <<[first |-> "m", sep |-> "/"], [first |-> "m", sep |-> "-"],
    [first |-> "d", sep |-> "/"], [first |-> "d", sep |-> "-"]>>

\* datetime.strptime of a token with fields f: Some(date), or None for
\* ValueError.
strptime(f, fmt) ==
  IF /\ f.s1 = fmt.sep
     /\ f.s2 = fmt.sep
     /\ ValidDate(f.y, IF fmt.first = "m" THEN f.a ELSE f.b,
                       IF fmt.first = "m" THEN f.b ELSE f.a)
  THEN Some([year |-> f.y,
             month |-> IF fmt.first = "m" THEN f.a ELSE f.b,
             day |-> IF fmt.first = "m" THEN f.b ELSE f.a])
  ELSE None

\* The loop over the formats: the first that parses, None when none does.
ParseDate(raw) ==
  Let(DateFields(raw), LAMBDA f :
    Let({k \in DOMAIN Formats : strptime(f, Formats[k]).some}, LAMBDA ok :
      IF ok = {} THEN None ELSE strptime(f, Formats[Min(ok)])))

\* f"{dt.year}nyeon {dt.month}wol {dt.day}il"; the three Hangul characters are
\* written "<nyeon>", "<wol>" and "<il>".
KoreanDate(dt) ==
  IntToStr(dt.year) \o <<"<nyeon>", " ">> \o IntToStr(dt.month)
    \o <<"<wol>", " ">> \o IntToStr(dt.day) \o <<"<il>">>

extract_invoice_date(text) ==
  Let(DateSearch(text), LAMBDA m :
    IF ~m.some THEN [raw |-> None, kr |-> None]
    ELSE Let(Strip(m.v), LAMBDA raw :
      Let(ParseDate(raw), LAMBDA dt :
        IF ~dt.some THEN [raw |-> Some(raw), kr |-> None]
        ELSE [raw |-> Some(raw), kr |-> Some(KoreanDate(dt.v))])))

(***************************************************************************)
(* extract_po_numbers                                                      *)
(***************************************************************************)

MinPODigits == 6
MaxPODigits == 20

\* The length of the match of PO\d{6,20} at position i, 0 when there is none.
POMatchLen(text, i) ==
  IF ~MatchAt(text, i, <<"P", "O">>) THEN 0
  ELSE Let(RunLen(text, i + 2, DigitSet), LAMBDA run :
    IF run < MinPODigits THEN 0
    ELSE IF run > MaxPODigits THEN 2 + MaxPODigits
    ELSE 2 + run)

\* re.findall from position i on: the matches left to right, none overlapping;
\* the scan resumes right after each match.
RECURSIVE findall_po(_, _)
findall_po(text, i) ==
  Let({j \in i..Len(text) : POMatchLen(text, j) > 0}, LAMBDA starts :
    IF starts = {} THEN <<>>
    ELSE Let(Min(starts), LAMBDA j :
      Let(POMatchLen(text, j), LAMBDA n :
        <<SubSeq(text, j, j + n - 1)>> \o findall_po(text, j + n))))

\* A variant that returns the matches as found: not sorted, with duplicates.
extract_po_numbers_unsorted(text) == findall_po(text, 1)

extract_po_numbers(text) ==
  Let(findall_po(text, 1), LAMBDA po_list : sorted({po_list[i] : i \in DOMAIN po_list}))

(***************************************************************************)
(* detect_vendor                                                           *)
(***************************************************************************)

kwCRT == <<"C", "R", "T">>
kwPARAGON == <<"P", "A", "R", "A", "G", "O", "N">>
kwPHYSIOL == <<"P", "H", "Y", "S", "I", "O", "L">>
kwPODEYE == <<"P", "O", "D", "E", "Y", "E">>

\* A variant that tests the PHYSIOL keywords before the PARAGON ones.
detect_vendor_physiol_first(text) ==
  Let(Upper(text), LAMBDA upper :
    IF Contains(upper, kwPHYSIOL) \/ Contains(upper, kwPODEYE) THEN "PHYSIOL"
    ELSE IF Contains(upper, kwCRT) \/ Contains(upper, kwPARAGON) THEN "PARAGON"
    ELSE "UNKNOWN")

detect_vendor(text) ==
  Let(Upper(text), LAMBDA upper :
    IF Contains(upper, kwCRT) \/ Contains(upper, kwPARAGON) THEN "PARAGON"
    ELSE IF Contains(upper, kwPHYSIOL) \/ Contains(upper, kwPODEYE) THEN "PHYSIOL"
    ELSE "UNKNOWN")

(***************************************************************************)
(* parse_paragon                                                           *)
(***************************************************************************)

sQty == <<"1", ".", "0", "0">>
sCRT100 == <<"C", "R", "T", "1", "0", "0">>
s100 == <<"1", "0", "0">>
sDA == <<"D", "A">>

\* range(i + 1, min(i + 4, len(lines))) reaches AnchorWindow lines past i.
AnchorWindow == 3

\* A variant that accepts "CRT100" on any later line.
IsAnchorAnyLater(lines, i) ==
  /\ Strip(lines[i]) = sQty
  /\ \E j \in (i + 1)..Len(lines) : Contains(lines[j], sCRT100)

\* Line i opens a block: it is "1.00" and one of the next lines has "CRT100".
IsAnchor(lines, i) ==
  /\ Strip(lines[i]) = sQty
  /\ \E j \in (i + 1)..(IF i + AnchorWindow < Len(lines) THEN i + AnchorWindow ELSE Len(lines)) :
       Contains(lines[j], sCRT100)

\* qty_indices from line i on, in line order.
RECURSIVE qty_indices(_, _)
qty_indices(lines, i) ==
  IF i > Len(lines) THEN <<>>
  ELSE (IF IsAnchor(lines, i) THEN <<i>> ELSE <<>>) \o qty_indices(lines, i + 1)

\* CRT\s*100\s*DA matches s at position i.
MatchDAAt(s, i) ==
  /\ MatchAt(s, i, kwCRT)
  /\ Let(i + Len(kwCRT) + RunLen(s, i + Len(kwCRT), SpaceSet), LAMBDA p :
       /\ MatchAt(s, p, s100)
       /\ Let(p + Len(s100) + RunLen(s, p + Len(s100), SpaceSet), LAMBDA q :
            MatchAt(s, q, sDA)))

\* re.search(r"CRT\s*100\s*DA", s)
SearchDA(s) == \E i \in 1..Len(s) : MatchDAAt(s, i)

\* re.match(r"^\d[\d,]*\.\d{2}$", s)
IsMoney(s) ==
  /\ Len(s) >= 4
  /\ s[1] \in DigitSet
  /\ \A k \in 2..(Len(s) - 3) : s[k] \in MoneyBodySet
  /\ s[Len(s) - 2] = "."
  /\ s[Len(s) - 1] \in DigitSet
  /\ s[Len(s)] \in DigitSet

\* float(s.replace(",", "")) of a string IsMoney accepts, in hundredths.
MoneyValue(s) ==
  100 * ToInt(SelectSeq(SubSeq(s, 1, Len(s) - 3), LAMBDA c : c # ","))
    + ToInt(SubSeq(s, Len(s) - 1, Len(s)))

\* The lines first .. last - 1 that are amounts, as numbers, in line order.
RECURSIVE AmountsIn(_, _, _)
AmountsIn(lines, first, last) ==
  IF first >= last THEN <<>>
  ELSE Let(Strip(lines[first]), LAMBDA num_str :
         IF IsMoney(num_str) THEN <<MoneyValue(num_str)>> ELSE <<>>)
       \o AmountsIn(lines, first + 1, last)

\* A variant that also takes the anchor line as a candidate.
AmountCandidatesFromAnchor(lines, block_start, block_end) ==
  AmountsIn(lines, block_start, block_end)

\* amount_candidates of the block of lines block_start .. block_end - 1.
AmountCandidates(lines, block_start, block_end) ==
  AmountsIn(lines, block_start + 1, block_end)

\* The line after the last of the block that starts at idx[pos].
BlockEnd(lines, idx, pos) ==
  IF pos + 1 <= Len(idx) THEN idx[pos + 1] ELSE Len(lines) + 1

\* One pass of the loop over qty_indices: the block's key, qty_val and
\* final_amount.  The anchor line strips to "1.00", so float() never raises.
Block(lines, idx, pos) ==
  Let(Upper(JoinLines(SubSeq(lines, idx[pos], BlockEnd(lines, idx, pos) - 1))),
      LAMBDA block_text_upper :
    Let(AmountCandidates(lines, idx[pos], BlockEnd(lines, idx, pos)),
        LAMBDA amount_candidates :
      [key |-> IF SearchDA(block_text_upper) THEN "CRT 100 DA" ELSE "CRT 100",
       qty |-> MoneyValue(Strip(lines[idx[pos]])),
       amount |-> IF amount_candidates # <<>>
                  THEN amount_candidates[Len(amount_candidates)] ELSE 0]))

\* The blocks in loop order.
Blocks(text) ==
  Let(SplitLines(text), LAMBDA lines :
    Let(qty_indices(lines, 1), LAMBDA idx :
      [pos \in DOMAIN idx |-> Block(lines, idx, pos)]))

\* grouped[key][field] after the first n passes of the loop.
RECURSIVE Accumulated(_, _, _, _)
Accumulated(blocks, key, field, n) ==
  IF n = 0 THEN 0
  ELSE Accumulated(blocks, key, field, n - 1)
         + (IF blocks[n].key = key THEN blocks[n][field] ELSE 0)

\* grouped after the loop: a key is present once a block was added to it.
Grouped(blocks) ==
  [key \in {blocks[n].key : n \in DOMAIN blocks} |->
     [qty |-> Accumulated(blocks, key, "qty", Len(blocks)),
      amount |-> Accumulated(blocks, key, "amount", Len(blocks))]]

\* A variant with the keys in the other order.
RowKeysDAFirst == <<"CRT 100 DA", "CRT 100">>

\* The keys in the order the rows are built.
RowKeys == <<"CRT 100", "CRT 100 DA">>

\* rows from the k-th key on: one per key that grouped holds.  qty_int says
\* the quantity is integral, and so shown as an int.
RECURSIVE RowsFrom(_, _)
RowsFrom(grouped, k) ==
  IF k > Len(RowKeys) THEN <<>>
  ELSE (IF RowKeys[k] \in DOMAIN grouped
        THEN <<[item |-> RowKeys[k],
                qty |-> grouped[RowKeys[k]].qty,
                qty_int |-> (grouped[RowKeys[k]].qty % 100 = 0),
                amount |-> grouped[RowKeys[k]].amount]>>
        ELSE <<>>) \o RowsFrom(grouped, k + 1)

\* sum(r[field] for r in rows[:n])
RECURSIVE SumUpTo(_, _, _)
SumUpTo(rows, field, n) ==
  IF n = 0 THEN 0 ELSE SumUpTo(rows, field, n - 1) + rows[n][field]

\* A variant that takes the first row only.
TotalFirstRow(rows, field) == IF rows = <<>> THEN 0 ELSE rows[1][field]

Total(rows, field) == SumUpTo(rows, field, Len(rows))

parse_paragon(text) ==
  Let(Blocks(text), LAMBDA blocks :
    Let(Grouped(blocks), LAMBDA grouped :
      Let(RowsFrom(grouped, 1), LAMBDA rows :
        [vendor |-> "Paragon",
         rows |-> rows,
         total_qty |-> Total(rows, "qty"),
         total_amount |-> Total(rows, "amount")])))


(***************************************************************************)
(* The uploaded documents                                                  *)
(***************************************************************************)

\* Page texts of a vertically stacked Paragon invoice.
pQty == <<"1", ".", "0", "0">>
pQtyPad == <<" ", "1", ".", "0", "0", " ">>
pCrt == <<"C", "R", "T", "1", "0", "0">>
pDa == <<"d", "a">>
pAmt == <<"5", "8", ".", "0", "0">>
pAmtK == <<"1", ",", "2", "3", "4", ".", "5", "0">>
pAmtTok == <<"N", "e", "t", " ", "7", ".", "2", "5">>
pGap == <<"\n">>
pGapLong == <<"\n", "\n">>
pItem == <<"1", ".", "0", "0", "\n", "C", "R", "T", "1", "0", "0">>

\* Date labels and date tokens.
dLabel == <<"I", "n", "v", "o", "i", "c", "e", " ", "D", "a", "t", "e", ":">>
dLabelLc == <<"i", "n", "v", "o", "i", "c", "e", " ", " ", "d", "a", "t", "e">>
dAmbig == <<"0", "3", "/", "0", "4", "/", "2", "0", "2", "5">>
dDmy == <<"1", "9", "/", "1", "1", "/", "2", "0", "2", "5">>
dBad == <<"1", "3", "/", "1", "3", "/", "2", "0", "2", "5">>
dMixed == <<"0", "3", "/", "0", "4", "-", "2", "0", "2", "5">>
dDash == <<"1", "1", "-", "1", "9", "-", "2", "0", "2", "5">>
dLeap == <<"2", "/", "2", "9", "/", "2", "0", "2", "4">>
dNoLeap == <<"2", "9", "/", "2", "/", "2", "0", "2", "5">>

\* Purchase order references.
oA == <<"P", "O", "2", "0", "0", "0", "0", "0">>
oB == <<"P", "O", "1", "0", "0", "0", "0", "0", "0">>
oShort == <<"P", "O", "2", "0", "0", "0", "0">>
oTwo == <<"P", "O", "2", "0", "0", "0", "0", "0", "P", "O", "3", "0", "0", "0", "0", "0">>
oLong == <<"P", "O", "1", "2", "3", "4", "5", "6", "7", "8", "9", "0", "1", "2", "3", "4", "5", "6", "7", "8", "9", "0", "1">>
oLc == <<"p", "o", "2", "0", "0", "0", "0", "0">>

\* Vendor keywords.
vPhysiol == <<"P", "h", "y", "s", "i", "o", "l">>
vPodeye == <<"P", "o", "d", "E", "y", "e">>
vParagon == <<"p", "a", "r", "a", "g", "o", "n">>
vCrt == <<"C", "r", "t">>
vOther == <<"x">>

ParagonPages ==
  {Some(t) : t \in {pQty, pQtyPad, pCrt, pDa, pAmt, pAmtK, pAmtTok, pGap, pGapLong, pItem}}
DatePages ==
  {Some(t) : t \in {dLabel, dLabelLc, dAmbig, dDmy, dBad, dMixed, dDash, dLeap, dNoLeap}}
POPages == {Some(t) : t \in {oA, oB, oShort, oTwo, oLong, oLc}}
VendorPages == {Some(t) : t \in {vPhysiol, vPodeye, vParagon, vCrt, vOther}} \cup {None}

\* The most pages an uploaded PDF has.
MaxPages == 3

PagesOver(S) == UNION {[1..n -> S] : n \in 0..MaxPages}

Pdf(pages) == [kind |-> "pdf", pages |-> pages]
Corrupt == [kind |-> "corrupt"]
NoFile == [kind |-> "nofile"]
Absent == [kind |-> "absent"]

\* Invoices of several items, longer than MaxPages.
SampleInvoices ==
  {Pdf(<<Some(pItem), Some(pAmt), Some(pItem), Some(pDa), Some(pAmtK)>>),
   Pdf(<<Some(pItem), Some(pDa), Some(pAmt), Some(pItem), Some(pAmtTok),
         Some(pItem), Some(pDa), Some(pAmtK), Some(pQty)>>)}

\* What a POST request carries as request.files.get("file").
Uploads ==
  {Pdf(ps) : ps \in PagesOver(ParagonPages) \cup PagesOver(DatePages)
                      \cup PagesOver(POPages) \cup PagesOver(VendorPages)}
    \cup SampleInvoices \cup {Corrupt, NoFile}

\* The uploads of the two concurrent requests.
ConcUploads ==
  {Pdf(<<Some(pItem), Some(pAmt)>>),
   Pdf(<<Some(pItem), Some(pDa), Some(pAmtK)>>),
   Pdf(<<Some(dLabel), Some(dAmbig), Some(oA)>>),
   Corrupt, NoFile}

(***************************************************************************)
(* index: the route, one process per request                               *)
(***************************************************************************)

Reqs == {1, 2}

VARIABLES
  tmp_file,   \* the content of "tmp_invoice.pdf", Absent when it does not exist
  pc,         \* where each request is in index()
  upload,     \* each request's uploaded file
  loc         \* each request's local variables

vars == <<tmp_file, pc, upload, loc>>

\* The locals as index() initialises them; blocks is not a variable of the
\* source: it keeps what each pass of parse_paragon's loop added.
Locals0 ==
  [text |-> <<>>, error |-> "None",
   invoice_date_raw |-> None, invoice_date_kr |-> None, po_numbers |-> None,
   vendor_type |-> "None", parsed |-> None, blocks |-> <<>>,
   vendor |-> None, rows |-> None, total_qty |-> None, total_amount |-> None]

\* try: text = extract_text(tmp_path); except Exception: error = ...; text = "".
\* Opening a missing or unreadable file raises.
ReadTmp(l, file) ==
  IF file.kind = "pdf"
  THEN [l EXCEPT !.text = extract_text(file)]
  ELSE [l EXCEPT !.error = "read", !.text = <<>>]

\* A variant that overwrites an earlier error.
UnknownVendorErrorAlways(error) == "unsupported"

\* else: if not error: error = (unsupported format)
UnknownVendorError(error) == IF error = "None" THEN "unsupported" ELSE error

\* Lines 510-523.  parse_physiol is defined nowhere in the source: calling it
\* raises NameError, which nothing catches.
Analyse(l0) ==
  Let(l0, LAMBDA l :
    Let(extract_invoice_date(l.text), LAMBDA date :
      Let(detect_vendor(l.text), LAMBDA vendor_type :
        Let([l EXCEPT !.invoice_date_raw = date.raw,
                      !.invoice_date_kr = date.kr,
                      !.po_numbers = Some(extract_po_numbers(l.text)),
                      !.vendor_type = vendor_type], LAMBDA l1 :
          IF vendor_type = "PARAGON"
          THEN [l1 EXCEPT !.parsed = Some(parse_paragon(l.text)),
                          !.blocks = Blocks(l.text)]
          ELSE IF vendor_type = "PHYSIOL" THEN l1
          ELSE [l1 EXCEPT !.error = UnknownVendorError(l.error)]))))

Raises(l) == l.vendor_type = "PHYSIOL"

\* Lines 530-536.
Validate(l) ==
  IF l.parsed.some
  THEN [l EXCEPT !.vendor = Some(l.parsed.v.vendor),
                 !.rows = Some(l.parsed.v.rows),
                 !.total_qty = Some(l.parsed.v.total_qty),
                 !.total_amount = Some(l.parsed.v.total_amount),
                 !.error = IF l.parsed.v.rows = <<>> /\ l.error = "None"
                           THEN "no_items" ELSE l.error]
  ELSE l

Init ==
  /\ tmp_file = Absent
  /\ \E u \in Uploads : upload = [r \in Reqs |-> IF r = 1 THEN u ELSE NoFile]
  /\ pc = [r \in Reqs |-> IF r = 1 THEN "start" ELSE "idle"]
  /\ loc = [r \in Reqs |-> Locals0]

InitConc ==
  /\ tmp_file = Absent
  /\ upload \in {u \in [Reqs -> ConcUploads] : u[1] # u[2]}
  /\ pc = [r \in Reqs |-> "start"]
  /\ loc = [r \in Reqs |-> Locals0]

\* if not pdf: error = (upload a file)
RejectNoFile(r) ==
  /\ pc[r] = "start"
  /\ upload[r].kind = "nofile"
  /\ loc' = [loc EXCEPT ![r].error = "upload"]
  /\ pc' = [pc EXCEPT ![r] = "done"]
  /\ UNCHANGED <<tmp_file, upload>>

\* pdf.save(tmp_path)
SaveUpload(r) ==
  /\ pc[r] = "start"
  /\ upload[r].kind # "nofile"
  /\ tmp_file' = upload[r]
  /\ pc' = [pc EXCEPT ![r] = "saved"]
  /\ UNCHANGED <<upload, loc>>

\* Lines 503-523: read the temporary file, then the extraction on the text.
ExtractAndParse(r) ==
  /\ pc[r] = "saved"
  /\ \E l \in {Analyse(ReadTmp(loc[r], tmp_file))} :
       /\ loc' = [loc EXCEPT ![r] = l]
       /\ pc' = [pc EXCEPT ![r] = IF Raises(l) THEN "crashed" ELSE "parsed"]
  /\ UNCHANGED <<tmp_file, upload>>

\* if os.path.exists(tmp_path):
CheckTmpExists(r) ==
  /\ pc[r] = "parsed"
  /\ pc' = [pc EXCEPT ![r] = IF tmp_file.kind # "absent" THEN "remove" ELSE "validate"]
  /\ UNCHANGED <<tmp_file, upload, loc>>

\* os.remove(tmp_path): FileNotFoundError when the file is gone by now.
RemoveTmp(r) ==
  /\ pc[r] = "remove"
  /\ tmp_file' = Absent
  /\ pc' = [pc EXCEPT ![r] = IF tmp_file.kind = "absent" THEN "crashed" ELSE "validate"]
  /\ UNCHANGED <<upload, loc>>

\* Lines 530-549: the result check and the response.
Render(r) ==
  /\ pc[r] = "validate"
  /\ loc' = [loc EXCEPT ![r] = Validate(loc[r])]
  /\ pc' = [pc EXCEPT ![r] = "done"]
  /\ UNCHANGED <<tmp_file, upload>>

Next ==
  \E r \in Reqs :
    \/ RejectNoFile(r)
    \/ SaveUpload(r)
    \/ ExtractAndParse(r)
    \/ CheckTmpExists(r)
    \/ RemoveTmp(r)
    \/ Render(r)

Spec == Init /\ [][Next]_vars
SpecConc == InitConc /\ [][Next]_vars

(***************************************************************************)
(* Properties                                                              *)
(***************************************************************************)

\* Request r has run lines 510-515: its text was searched and classified.
Analysed(r) == loc[r].vendor_type # "None"

CanonicalKeys == {"CRT 100", "CRT 100 DA"}

\* kw occurs in text, letter case ignored.
ContainsIgnoringCase(text, kw) ==
  \E i \in 1..(Len(text) - Len(kw) + 1) :
    \A k \in 1..Len(kw) : UpperChar(text[i + k - 1]) = kw[k]

RECURSIVE SumOver(_, _)
SumOver(f, S) ==
  IF S = {} THEN 0
  ELSE LET i == CHOOSE j \in S : TRUE IN f[i] + SumOver(f, S \ {i})

\* C1: every POST request ends by returning a result or an error as data: no
\* request ends with an exception raised out of index().
NoRequestRaises == \A r \in Reqs : pc[r] # "crashed"

\* What index() shows for upload u when no other request runs.
Alone(u) ==
  IF u.kind = "nofile" THEN [Locals0 EXCEPT !.error = "upload"]
  ELSE Validate(Analyse(ReadTmp(Locals0, u)))

\* C2: with two requests handled in any interleaving, no request fails, and a
\* finished request shows the vendor, rows, totals, date, PO list and error of
\* its own upload.
RequestsIsolated ==
  \A r \in Reqs :
    /\ pc[r] # "crashed"
    /\ pc[r] = "done" =>
         LET own == Alone(upload[r])
         IN /\ loc[r].vendor = own.vendor
            /\ loc[r].rows = own.rows
            /\ loc[r].total_qty = own.total_qty
            /\ loc[r].total_amount = own.total_amount
            /\ loc[r].invoice_date_raw = own.invoice_date_raw
            /\ loc[r].invoice_date_kr = own.invoice_date_kr
            /\ loc[r].po_numbers = own.po_numbers
            /\ loc[r].error = own.error

\* C3: the totals parse_paragon returns are the sums of qty and of amount over
\* its rows, and both are zero when there is no row.
TotalsAreSums ==
  \A r \in Reqs :
    loc[r].parsed.some =>
      LET p == loc[r].parsed.v
      IN /\ p.total_qty = SumOver([i \in DOMAIN p.rows |-> p.rows[i].qty], DOMAIN p.rows)
         /\ p.total_amount = SumOver([i \in DOMAIN p.rows |-> p.rows[i].amount], DOMAIN p.rows)
         /\ p.rows = <<>> => p.total_qty = 0 /\ p.total_amount = 0

\* Two rows with different amounts were totalled.
TotalsWitness ==
  \E r \in Reqs :
    /\ loc[r].parsed.some
    /\ Len(loc[r].parsed.v.rows) = 2
    /\ loc[r].parsed.v.rows[1].amount > 0
    /\ loc[r].parsed.v.rows[2].amount > loc[r].parsed.v.rows[1].amount

\* C4: a text with "CRT" or "PARAGON" (in any letter case) is PARAGON, also
\* when it has "PHYSIOL" or "PODEYE"; otherwise a text with "PHYSIOL" or
\* "PODEYE" is PHYSIOL; every other text, the empty one too, is UNKNOWN.
VendorPrecedence ==
  \A r \in Reqs :
    Analysed(r) =>
      LET t == loc[r].text
      IN loc[r].vendor_type =
           IF ContainsIgnoringCase(t, kwCRT) \/ ContainsIgnoringCase(t, kwPARAGON)
           THEN "PARAGON"
           ELSE IF ContainsIgnoringCase(t, kwPHYSIOL) \/ ContainsIgnoringCase(t, kwPODEYE)
           THEN "PHYSIOL"
           ELSE "UNKNOWN"

\* A text with keywords of both vendors was classified PARAGON.
VendorPrecedenceWitness ==
  \E r \in Reqs :
    /\ loc[r].vendor_type = "PARAGON"
    /\ ContainsIgnoringCase(loc[r].text, kwPHYSIOL)
    /\ ContainsIgnoringCase(loc[r].text, kwPODEYE)

\* The positions of text where "PO" and at least MinPODigits digits start.
POStarts(text) ==
  {i \in 1..Len(text) :
     MatchAt(text, i, <<"P", "O">>) /\ RunLen(text, i + 2, DigitSet) >= MinPODigits}

\* The PO token at such a position: at most MaxPODigits digits.
POTokenAt(text, i) ==
  LET run == RunLen(text, i + 2, DigitSet)
  IN SubSeq(text, i, i + 1 + (IF run > MaxPODigits THEN MaxPODigits ELSE run))

\* C5: po_numbers is a sequence, never absent, without duplicates, in
\* ascending lexicographic order, that holds exactly the PO tokens of the text.
PONumbersSortedUnique ==
  \A r \in Reqs :
    Analysed(r) =>
      /\ loc[r].po_numbers.some
      /\ LET po == loc[r].po_numbers.v
             t == loc[r].text
         IN /\ \A i, j \in DOMAIN po : i # j => po[i] # po[j]
            /\ \A i, j \in DOMAIN po : i < j => StrLe(po[i], po[j])
            /\ {po[i] : i \in DOMAIN po} = {POTokenAt(t, i) : i \in POStarts(t)}
            /\ POStarts(t) = {} => po = <<>>

\* A token that occurs twice was listed once, after a token that is larger as
\* a number and smaller as a string.
PONumbersWitness ==
  \E r \in Reqs :
    /\ Analysed(r)
    /\ loc[r].po_numbers = Some(<<oB, oA>>)
    /\ Cardinality(POStarts(loc[r].text)) = 3

\* C6: rows holds at most one row per canonical key and no other key; a key
\* has a row exactly when a block was classified under it; "CRT 100" comes
\* before "CRT 100 DA".
RowsPerCanonicalKey ==
  \A r \in Reqs :
    loc[r].parsed.some =>
      LET rows == loc[r].parsed.v.rows
          blocks == loc[r].blocks
      IN /\ \A i \in DOMAIN rows : rows[i].item \in CanonicalKeys
         /\ \A i, j \in DOMAIN rows : i # j => rows[i].item # rows[j].item
         /\ \A key \in CanonicalKeys :
              (\E i \in DOMAIN rows : rows[i].item = key)
                <=> (\E n \in DOMAIN blocks : blocks[n].key = key)
         /\ \A i, j \in DOMAIN rows :
              rows[i].item = "CRT 100" /\ rows[j].item = "CRT 100 DA" => i < j

\* Both keys have a row.
RowsWitness ==
  \E r \in Reqs :
    /\ loc[r].parsed.some
    /\ Len(loc[r].parsed.v.rows) = 2
    /\ Len(loc[r].blocks) = 2

\* C7 as stated: when the text cannot be extracted the request ends on the
\* unsupported-vendor path with the error an empty document gets.
ExtractionFailureShowsUnsupported ==
  \A r \in Reqs :
    pc[r] = "done" /\ upload[r].kind = "corrupt" =>
      /\ loc[r].vendor_type = "UNKNOWN"
      /\ ~loc[r].parsed.some
      /\ loc[r].error = Alone(Pdf(<<>>)).error

\* C7: when the text cannot be extracted the request is handled as an empty
\* document with vendor UNKNOWN and no line-item extraction, and the error
\* shown is the read error, not the unsupported-vendor error.
ExtractionFailureKeepsReadError ==
  \A r \in Reqs :
    pc[r] = "done" /\ upload[r].kind = "corrupt" =>
      /\ loc[r].text = <<>>
      /\ loc[r].vendor_type = "UNKNOWN"
      /\ ~loc[r].parsed.some
      /\ loc[r].blocks = <<>>
      /\ ~loc[r].vendor.some
      /\ ~loc[r].rows.some
      /\ loc[r].error = "read"
      /\ loc[r].error # Alone(Pdf(<<>>)).error

\* A request whose upload could not be read has finished.
ExtractionFailureWitness ==
  \E r \in Reqs : pc[r] = "done" /\ upload[r].kind = "corrupt"

\* The dates a token with fields f stands for, by priority.
MonthFirst(f) == [year |-> f.y, month |-> f.a, day |-> f.b]
DayFirst(f) == [year |-> f.y, month |-> f.b, day |-> f.a]

\* The raw date is the token of the first label and token pair, and is absent
\* (with the normalized text) only when the text has no such pair.
RawIsFirstToken(r) ==
  Let(loc[r].text, LAMBDA t :
    Let(Upper(t), LAMBDA up :
      Let({i \in 1..Len(t) : DateMatchAt(t, up, i) # <<>>}, LAMBDA at :
        IF at = {}
        THEN ~loc[r].invoice_date_raw.some /\ ~loc[r].invoice_date_kr.some
        ELSE loc[r].invoice_date_raw = Some(DateMatchAt(t, up, Min(at))))))

\* C8 as stated: the token a/b/yyyy is read as month a, day b when that is a
\* valid date, else as day a, month b when that is valid, else only the raw
\* token is returned.
DatePriorityAnySeparators ==
  \A r \in Reqs :
    Analysed(r) =>
      /\ RawIsFirstToken(r)
      /\ loc[r].invoice_date_raw.some =>
           LET f == DateFields(loc[r].invoice_date_raw.v)
           IN loc[r].invoice_date_kr =
                IF ValidDate(f.y, f.a, f.b) THEN Some(KoreanDate(MonthFirst(f)))
                ELSE IF ValidDate(f.y, f.b, f.a) THEN Some(KoreanDate(DayFirst(f)))
                ELSE None

\* C8: a token whose two separators are the same character is read as month
\* a, day b when that is a valid date, else as day a, month b when that is
\* valid; a token with neither reading valid, or with one slash and one dash,
\* gives the raw token and no normalized text.
DatePrioritySameSeparator ==
  \A r \in Reqs :
    Analysed(r) =>
      /\ RawIsFirstToken(r)
      /\ loc[r].invoice_date_raw.some =>
           LET f == DateFields(loc[r].invoice_date_raw.v)
           IN loc[r].invoice_date_kr =
                IF f.s1 # f.s2 THEN None
                ELSE IF ValidDate(f.y, f.a, f.b) THEN Some(KoreanDate(MonthFirst(f)))
                ELSE IF ValidDate(f.y, f.b, f.a) THEN Some(KoreanDate(DayFirst(f)))
                ELSE None

\* "03/04/2025" was normalized to year 2025, month 3, day 4.
DatePriorityWitness ==
  \E r \in Reqs :
    /\ loc[r].invoice_date_raw = Some(dAmbig)
    /\ loc[r].invoice_date_kr =
         Some(<<"2", "0", "2", "5", "<nyeon>", " ", "3", "<wol>", " ", "4", "<il>">>)

\* The anchors of lines, the n-th of them, and the last line of the block
\* that an anchor opens.
Anchors(lines) == {i \in 1..Len(lines) : IsAnchor(lines, i)}
NthOf(A, n) == CHOOSE i \in A : Cardinality({j \in A : j <= i}) = n
LastLineOf(lines, A, i) ==
  IF \E j \in A : j > i THEN Min({j \in A : j > i}) - 1 ELSE Len(lines)

\* The tokens of a line: its longest runs without white space, as <<a, b>>.
TokensOf(line) ==
  {ab \in (1..Len(line)) \X (1..Len(line)) :
     /\ ab[1] <= ab[2]
     /\ \A k \in ab[1]..ab[2] : line[k] \notin SpaceSet
     /\ ab[1] = 1 \/ line[ab[1] - 1] \in SpaceSet
     /\ ab[2] = Len(line) \/ line[ab[2] + 1] \in SpaceSet}

\* The value of the last money token of lines first..last, 0 without one.
LastMoneyToken(lines, first, last) ==
  LET found == {kab \in UNION {{<<k, ab[1], ab[2]>> : ab \in TokensOf(lines[k])} : k \in first..last} :
                  IsMoney(SubSeq(lines[kab[1]], kab[2], kab[3]))}
  IN IF found = {} THEN 0
     ELSE LET m == CHOOSE x \in found :
                     \A y \in found : y[1] < x[1] \/ (y[1] = x[1] /\ y[2] <= x[2])
          IN MoneyValue(SubSeq(lines[m[1]], m[2], m[3]))

\* The value of the last line of first..last that is a money amount once
\* trimmed, 0 without one.
LastMoneyLine(lines, first, last) ==
  LET found == {k \in first..last : IsMoney(Strip(lines[k]))}
  IN IF found = {} THEN 0 ELSE MoneyValue(Strip(lines[Max(found)]))

\* C9 as stated: a block runs from an anchor to the line before the next
\* anchor or the end, and its amount is the last money token in the block,
\* 0.0 when the block has none.
BlockAmountIsLastToken ==
  \A r \in Reqs :
    loc[r].parsed.some =>
      LET lines == SplitLines(loc[r].text)
          A == Anchors(lines)
      IN /\ Len(loc[r].blocks) = Cardinality(A)
         /\ \A n \in DOMAIN loc[r].blocks :
              loc[r].blocks[n].amount =
                LastMoneyToken(lines, NthOf(A, n), LastLineOf(lines, A, NthOf(A, n)))

\* C9: a block runs from an anchor to the line before the next anchor or the
\* end; its amount is that of the last line after the anchor line, within the
\* block, whose trimmed content as a whole is a money amount, 0.0 when there
\* is none; its key is "CRT 100 DA" exactly when the block's text has it.
BlockAmountIsLastLineAfterAnchor ==
  \A r \in Reqs :
    loc[r].parsed.some =>
      LET lines == SplitLines(loc[r].text)
          A == Anchors(lines)
      IN /\ Len(loc[r].blocks) = Cardinality(A)
         /\ \A n \in DOMAIN loc[r].blocks :
              LET first == NthOf(A, n)
                  last == LastLineOf(lines, A, first)
              IN /\ loc[r].blocks[n].amount = LastMoneyLine(lines, first + 1, last)
                 /\ loc[r].blocks[n].key = "CRT 100 DA"
                      <=> SearchDA(Upper(JoinLines(SubSeq(lines, first, last))))

\* Of three blocks the first took its one amount line, the second, whose
\* amount is a token of a longer line, took none, and the third took the last
\* of its two amount lines.
BlockAmountWitness ==
  \E r \in Reqs :
    /\ Len(loc[r].blocks) = 3
    /\ loc[r].blocks[1].amount = MoneyValue(pAmt)
    /\ loc[r].blocks[2].amount = 0
    /\ loc[r].blocks[3].amount = MoneyValue(pQty)
    /\ Contains(loc[r].text, pAmtK)

\* The lines that are "1.00" once trimmed, and those of them followed within
\* three lines by a line with "CRT100".
QtyLines(lines) == {i \in 1..Len(lines) : Strip(lines[i]) = sQty}
ConfirmedAnchors(lines) ==
  {i \in QtyLines(lines) :
     \E j \in (i + 1)..(i + 3) : j <= Len(lines) /\ Contains(lines[j], sCRT100)}

\* C10: there is one block per confirmed anchor; each adds 1 to the quantity
\* of one canonical key; each row's qty is a positive integer, and total_qty
\* is the number of confirmed anchors.
QuantityCountsAnchors ==
  \A r \in Reqs :
    loc[r].parsed.some =>
      LET lines == SplitLines(loc[r].text)
          blocks == loc[r].blocks
          p == loc[r].parsed.v
      IN /\ {blocks[n].key : n \in DOMAIN blocks} \subseteq CanonicalKeys
         /\ Len(blocks) = Cardinality(ConfirmedAnchors(lines))
         /\ \A n \in DOMAIN blocks : blocks[n].qty = 100
         /\ \A i \in DOMAIN p.rows :
              /\ p.rows[i].qty_int
              /\ p.rows[i].qty >= 100
              /\ p.rows[i].qty =
                   100 * Cardinality({n \in DOMAIN blocks : blocks[n].key = p.rows[i].item})
         /\ p.total_qty = 100 * Cardinality(ConfirmedAnchors(lines))

\* A text with a confirmed anchor and a "1.00" line that is not one.
QuantityWitness ==
  \E r \in Reqs :
    /\ loc[r].parsed.some
    /\ loc[r].parsed.v.total_qty = 100
    /\ Cardinality(QtyLines(SplitLines(loc[r].text))) = 2

====
